---- MODULE Spec2Model ----
(***************************************************************************)
(* A model of the CHIP-8 interpreter of src/src/chip8.rs (machine state,   *)
(* decode, fetch, execute) and of the driver loop of src/src/main.rs.      *)
(*                                                                         *)
(* A Rust panic (index out of bounds, slice range out of range, checked    *)
(* arithmetic overflow) ends the process: it is modelled as the result     *)
(* "panic", with the machine holding every assignment made before it.      *)
(*                                                                         *)
(* The two large arrays are held sparsely.  memory, [u8; 4096], is the     *)
(* function from the addresses holding a nonzero byte to that byte, every  *)
(* other address of 0 .. 4095 holding 0.  display, [[u8; 64]; 32] with     *)
(* entries 0 and 1, is the set of the <<row, column>> pairs holding 1.     *)
(* MemRead / MemWrite and PixelRead / PixelWrite are the array reads and   *)
(* writes; each array has exactly one representation, so equality of the   *)
(* representations is equality of the arrays.                              *)
(***************************************************************************)
EXTENDS Integers, Sequences, FiniteSets, TLC

(***************************************************************************)
(* Program constants.                                                      *)
(***************************************************************************)
FONTSET_START_ADDRESS == 80
PROGRAM_START_ADDRESS == 512
MEMORY_SIZE == 4096
STACK_SIZE == 16
DISPLAY_WIDTH == 64
DISPLAY_HEIGHT == 32
U16_MODULUS == 65536

Addresses == 0 .. (MEMORY_SIZE - 1)
RegisterIds == 0 .. 15
StackSlots == 0 .. (STACK_SIZE - 1)
Rows == 0 .. (DISPLAY_HEIGHT - 1)
Columns == 0 .. (DISPLAY_WIDTH - 1)
Bytes == 0 .. 255
Modes == {"Chip8", "Chip48"}

(***************************************************************************)
(* Integer helpers: the bits of a byte and the bitwise operators of u8     *)
(* values.                                                                 *)
(***************************************************************************)
Bit(v, i) == (v \div (2 ^ i)) % 2

FromBits(t) ==
    t[0] + 2 * t[1] + 4 * t[2] + 8 * t[3] + 16 * t[4] + 32 * t[5] + 64 * t[6]
    + 128 * t[7]

BitAnd(a, b) == FromBits([i \in 0 .. 7 |-> Bit(a, i) * Bit(b, i)])

BitOr(a, b) ==
    FromBits([i \in 0 .. 7 |-> IF Bit(a, i) + Bit(b, i) > 0 THEN 1 ELSE 0])

BitXor(a, b) == FromBits([i \in 0 .. 7 |-> (Bit(a, i) + Bit(b, i)) % 2])

Min(a, b) == IF a < b THEN a ELSE b

(***************************************************************************)
(* Reads and writes of the memory and display arrays.                      *)
(***************************************************************************)
MemRead(memory, a) == IF a \in DOMAIN memory THEN memory[a] ELSE 0

MemWrite(memory, a, v) ==
    [b \in (IF v = 0 THEN DOMAIN memory \ {a} ELSE DOMAIN memory \cup {a}) |->
        IF b = a THEN v ELSE memory[b]]

PixelRead(display, r, c) == IF << r, c >> \in display THEN 1 ELSE 0

PixelWrite(display, r, c, v) ==
    IF v = 0 THEN display \ {<< r, c >>} ELSE display \cup {<< r, c >>}

(***************************************************************************)
(* The built-in glyph set: 16 hexadecimal digit sprites of 5 bytes each.   *)
(***************************************************************************)
FONTSET ==
    << 240, 144, 144, 144, 240,    32,  96,  32,  32, 112,
       240,  16, 240, 128, 240,   240,  16, 240,  16, 240,
       144, 144, 240,  16,  16,   240, 128, 240,  16, 240,
       240, 128, 240, 144, 240,   240,  16,  32,  64,  64,
       240, 144, 240, 144, 240,   240, 144, 240,  16, 240,
       240, 144, 240, 144, 144,   224, 144, 224, 144, 224,
       240, 128, 128, 128, 240,   224, 144, 144, 144, 224,
       240, 128, 240, 128, 240,   240, 128, 240, 128, 128 >>

(***************************************************************************)
(* KeyboardState::new.  An Option<u8> is the empty sequence (None) or the  *)
(* one-element sequence <<k>> (Some(k)).                                   *)
(***************************************************************************)
KeyboardStateNew ==
    [keys_pressed |-> [k \in 0 .. 15 |-> FALSE], pressed_key |-> << >>]

(***************************************************************************)
(* Chip8::new: the machine after construction with the given mode.         *)
(***************************************************************************)
new(mode) ==
    [memory |-> [a \in { FONTSET_START_ADDRESS + i - 1 :
                            i \in { k \in 1 .. Len(FONTSET) : FONTSET[k] # 0 } } |->
                    FONTSET[a - FONTSET_START_ADDRESS + 1]],
     registers |-> [r \in RegisterIds |-> 0],
     index_register |-> 0,
     program_counter |-> PROGRAM_START_ADDRESS,
     stack |-> [s \in StackSlots |-> 0],
     stack_pointer |-> -1,
     delay_timer |-> 0,
     sound_timer |-> 0,
     display |-> {},
     mode |-> mode]

(***************************************************************************)
(* Chip8::load: the program's bytes are written from 0x200 on, in order;   *)
(* a byte that would land past the end of memory panics, the bytes before  *)
(* it written.                                                             *)
(***************************************************************************)
load_at(m, program, start) ==
    LET fits == Min(Len(program), MEMORY_SIZE - start)
        byte(a) == IF a >= start /\ a < start + fits
                   THEN program[a - start + 1]
                   ELSE MemRead(m.memory, a)
        touched == DOMAIN m.memory \cup { start + i - 1 : i \in 1 .. fits }
    IN [machine |-> [m EXCEPT !.memory =
                        [a \in { b \in touched : byte(b) # 0 } |-> byte(a)]],
        result |-> IF fits < Len(program) THEN "panic" ELSE "None"]

\* A load that copies the program from the glyph set's address instead.
load_over_glyphs(m, program) == load_at(m, program, FONTSET_START_ADDRESS)

load(m, program) == load_at(m, program, PROGRAM_START_ADDRESS)

(***************************************************************************)
(* decode: the fields of a 16-bit opcode.  Masking with 0xF000, 0x0F00,    *)
(* 0x00F0 and shifting right is division and remainder by powers of 16.    *)
(***************************************************************************)
decode(opcode) ==
    [instruction |-> (opcode \div 4096) % 16,
     x |-> (opcode \div 256) % 16,
     y |-> (opcode \div 16) % 16,
     n |-> opcode % 16,
     nn |-> opcode % 256,
     nnn |-> opcode % 4096]

(***************************************************************************)
(* Chip8::fetch: the two bytes at program_counter, big-endian, and the     *)
(* program counter 2 further.  Reading memory[pc] or memory[pc + 1] past   *)
(* the end of memory panics before the program counter is changed.         *)
(***************************************************************************)
fetch(m) ==
    LET pc == m.program_counter
    IN IF pc + 1 > MEMORY_SIZE - 1
       THEN [machine |-> m, opcode |-> 0, result |-> "panic"]
       ELSE [machine |-> [m EXCEPT !.program_counter = pc + 2],
             opcode |-> MemRead(m.memory, pc) * 256 + MemRead(m.memory, pc + 1),
             result |-> "None"]

(***************************************************************************)
(* The outcomes of Chip8::execute: Ok(Actions::None), Ok(Actions::Redraw), *)
(* or a panic.  The code has no path that returns Err.                     *)
(***************************************************************************)
Done(m) == [machine |-> m, result |-> "None"]
Redrawn(m) == [machine |-> m, result |-> "Redraw"]
Panicked(m) == [machine |-> m, result |-> "panic"]

SetRegister(m, r, v) == [m EXCEPT !.registers[r] = v]
SkipNext(m) == [m EXCEPT !.program_counter = m.program_counter + 2]

(***************************************************************************)
(* Class 0x0: clear the display, return from a subroutine, machine call.   *)
(***************************************************************************)
exec_clear(m) ==
    Redrawn([m EXCEPT !.display = {}])

\* A return that takes the oldest stack entry instead of the newest.
exec_return_oldest(m) ==
    IF m.stack_pointer >= 0
    THEN Done([m EXCEPT !.program_counter = m.stack[0],
                        !.stack_pointer = m.stack_pointer - 1])
    ELSE Done(m)

exec_return(m) ==
    IF m.stack_pointer >= 0
    THEN Done([m EXCEPT !.program_counter = m.stack[m.stack_pointer],
                        !.stack_pointer = m.stack_pointer - 1])
    ELSE Done(m)

(***************************************************************************)
(* 1NNN jump and 2NNN call.  The call increments stack_pointer and then    *)
(* indexes the 16-entry stack with it: with 16 addresses on the stack the  *)
(* index is 16 and the write panics, stack_pointer already incremented.    *)
(***************************************************************************)
exec_jump(m, op) == Done([m EXCEPT !.program_counter = op.nnn])

exec_call(m, op) ==
    LET sp == m.stack_pointer + 1
        m1 == [m EXCEPT !.stack_pointer = sp]
    IN IF sp > STACK_SIZE - 1
       THEN Panicked(m1)
       ELSE Done([m1 EXCEPT !.stack[sp] = m.program_counter,
                            !.program_counter = op.nnn])

(***************************************************************************)
(* 3XNN, 4XNN, 5XY0, 9XY0: the conditional skips.                          *)
(***************************************************************************)
exec_skip_eq_nn(m, op) ==
    IF m.registers[op.x] = op.nn THEN Done(SkipNext(m)) ELSE Done(m)

exec_skip_ne_nn(m, op) ==
    IF m.registers[op.x] # op.nn THEN Done(SkipNext(m)) ELSE Done(m)

exec_skip_eq_reg(m, op) ==
    IF m.registers[op.x] = m.registers[op.y] THEN Done(SkipNext(m)) ELSE Done(m)

exec_skip_ne_reg(m, op) ==
    IF m.registers[op.x] # m.registers[op.y] THEN Done(SkipNext(m)) ELSE Done(m)

(***************************************************************************)
(* 6XNN and 7XNN.                                                          *)
(***************************************************************************)
exec_set_nn(m, op) == Done(SetRegister(m, op.x, op.nn))

exec_add_nn(m, op) == Done(SetRegister(m, op.x, (m.registers[op.x] + op.nn) % 256))

(***************************************************************************)
(* Class 0x8: register-to-register operations.  The flag register is       *)
(* written after Vx, so with x = 0xF the flag value is what remains.       *)
(***************************************************************************)
\* A flag reset that does not depend on the mode.
ClearFlagAlways(m) == SetRegister(m, 15, 0)

LegacyClearFlag(m) == IF m.mode = "Chip8" THEN SetRegister(m, 15, 0) ELSE m

exec_mov(m, op) == Done(SetRegister(m, op.x, m.registers[op.y]))

exec_or(m, op) ==
    Done(LegacyClearFlag(
            SetRegister(m, op.x, BitOr(m.registers[op.x], m.registers[op.y]))))

exec_and(m, op) ==
    Done(LegacyClearFlag(
            SetRegister(m, op.x, BitAnd(m.registers[op.x], m.registers[op.y]))))

exec_xor(m, op) ==
    Done(LegacyClearFlag(
            SetRegister(m, op.x, BitXor(m.registers[op.x], m.registers[op.y]))))

\* An addition that reports the carry from a sum of 255 on.
exec_add_reg_early(m, op) ==
    LET sum == m.registers[op.x] + m.registers[op.y]
    IN Done(SetRegister(SetRegister(m, op.x, sum % 256),
                        15, IF sum >= 255 THEN 1 ELSE 0))

exec_add_reg(m, op) ==
    LET sum == m.registers[op.x] + m.registers[op.y]
    IN Done(SetRegister(SetRegister(m, op.x, sum % 256),
                        15, IF sum > 255 THEN 1 ELSE 0))

\* A subtraction that reports a borrow when the operands are equal.
exec_sub_reg_strict(m, op) ==
    LET diff == m.registers[op.x] - m.registers[op.y]
    IN Done(SetRegister(SetRegister(m, op.x, diff % 256),
                        15, IF diff <= 0 THEN 0 ELSE 1))

exec_sub_reg(m, op) ==
    LET diff == m.registers[op.x] - m.registers[op.y]
    IN Done(SetRegister(SetRegister(m, op.x, diff % 256),
                        15, IF diff < 0 THEN 0 ELSE 1))

exec_subn_reg(m, op) ==
    LET diff == m.registers[op.y] - m.registers[op.x]
    IN Done(SetRegister(SetRegister(m, op.x, diff % 256),
                        15, IF diff < 0 THEN 0 ELSE 1))

\* A shift that copies Vy into Vx under either mode.
ShiftOperandCopied(m, op) == SetRegister(m, op.x, m.registers[op.y])

ShiftOperand(m, op) ==
    IF m.mode = "Chip8" THEN SetRegister(m, op.x, m.registers[op.y]) ELSE m

exec_shr(m, op) ==
    LET m1 == ShiftOperand(m, op)
        carry == BitAnd(m1.registers[op.x], 1)
    IN Done(SetRegister(SetRegister(m1, op.x, m1.registers[op.x] \div 2),
                        15, carry))

exec_shl(m, op) ==
    LET m1 == ShiftOperand(m, op)
        carry == m1.registers[op.x] \div 128
    IN Done(SetRegister(SetRegister(m1, op.x, (m1.registers[op.x] * 2) % 256),
                        15, carry))

(***************************************************************************)
(* ANNN, BNNN, CXNN.  The random byte is an input of the instruction.      *)
(***************************************************************************)
exec_set_index(m, op) == Done([m EXCEPT !.index_register = op.nnn])

exec_jump_offset(m, op) ==
    IF m.mode = "Chip8"
    THEN Done([m EXCEPT !.program_counter = op.nnn + m.registers[0]])
    ELSE Done([m EXCEPT !.program_counter = op.nnn + m.registers[op.x]])

exec_random(m, op, number) == Done(SetRegister(m, op.x, BitAnd(number, op.nn)))

(***************************************************************************)
(* DXYN: the sprite draw.  The anchor is read, VF is reset, and then the   *)
(* sprite slice memory[I .. I + n] is taken, which panics when I + n is    *)
(* past the end of memory.  The row loop stops at the bottom edge and the  *)
(* bit loop at the right edge.                                             *)
(***************************************************************************)
\* A bit loop that writes the flag at every set bit: 1 on a lit pixel, 0 on
\* an unlit one.
RECURSIVE draw_bits_flag_last(_, _, _, _, _)
draw_bits_flag_last(m, x, row, byte, i) ==
    IF i > 7 \/ x + i > DISPLAY_WIDTH - 1
    THEN m
    ELSE LET lit == PixelRead(m.display, row, x + i)
             pixel == BitAnd(byte \div (2 ^ (7 - i)), 1)
             m2 == IF lit \in { 0, 1 } /\ pixel = 1
                   THEN [m EXCEPT !.registers[15] = lit,
                                  !.display = PixelWrite(m.display, row, x + i,
                                                         BitXor(lit, 1))]
                   ELSE m
         IN draw_bits_flag_last(m2, x, row, byte, i + 1)

\* A bit loop that sets the pixel of every set bit instead of toggling it.
RECURSIVE draw_bits_set(_, _, _, _, _)
draw_bits_set(m, x, row, byte, i) ==
    IF i > 7 \/ x + i > DISPLAY_WIDTH - 1
    THEN m
    ELSE LET lit == PixelRead(m.display, row, x + i)
             pixel == BitAnd(byte \div (2 ^ (7 - i)), 1)
             m2 == IF lit = 1 /\ pixel = 1 THEN SetRegister(m, 15, 1)
                   ELSE IF pixel = 1
                   THEN [m EXCEPT !.display = PixelWrite(m.display, row, x + i, 1)]
                   ELSE m
         IN draw_bits_set(m2, x, row, byte, i + 1)

RECURSIVE draw_bits(_, _, _, _, _)
draw_bits(m, x, row, byte, i) ==
    IF i > 7 \/ x + i > DISPLAY_WIDTH - 1
    THEN m
    ELSE LET pixel == BitAnd(byte \div (2 ^ (7 - i)), 1)
             m1 == IF PixelRead(m.display, row, x + i) = 1 /\ pixel = 1
                   THEN SetRegister(m, 15, 1)
                   ELSE m
             m2 == IF pixel = 1
                   THEN [m1 EXCEPT !.display =
                            PixelWrite(m1.display, row, x + i,
                                BitXor(PixelRead(m1.display, row, x + i), 1))]
                   ELSE m1
         IN draw_bits(m2, x, row, byte, i + 1)

\* A row loop that wraps past the bottom edge to the top rows.
RECURSIVE draw_rows_wrapped(_, _, _, _, _)
draw_rows_wrapped(m, x, y, n, j) ==
    IF j >= n
    THEN m
    ELSE LET row == draw_bits(m, x, (y + j) % DISPLAY_HEIGHT,
                              MemRead(m.memory, m.index_register + j), 0)
         IN IF row.registers[15] \in { 0, 1 }
            THEN draw_rows_wrapped(row, x, y, n, j + 1)
            ELSE row

RECURSIVE draw_rows(_, _, _, _, _)
draw_rows(m, x, y, n, j) ==
    IF j >= n \/ y + j > DISPLAY_HEIGHT - 1
    THEN m
    ELSE LET row == draw_bits(m, x, y + j,
                              MemRead(m.memory, m.index_register + j), 0)
         \* VF is 0 or 1 throughout a draw: the test only has the row
         \* evaluated before the next one is begun.
         IN IF row.registers[15] \in { 0, 1 }
            THEN draw_rows(row, x, y, n, j + 1)
            ELSE row

exec_draw(m, op) ==
    LET x == BitAnd(m.registers[op.x], 63)
        y == BitAnd(m.registers[op.y], 31)
        m1 == SetRegister(m, 15, 0)
    IN IF m.index_register + op.n > MEMORY_SIZE
       THEN Panicked(m1)
       ELSE Redrawn(draw_rows(m1, x, y, op.n, 0))

(***************************************************************************)
(* EX9E, EXA1: the key skips.  keys_pressed has 16 entries and is indexed  *)
(* with the value of Vx: a value above 15 panics.                          *)
(***************************************************************************)
exec_skip_key(m, op, keyboard_state) ==
    IF m.registers[op.x] > 15
    THEN Panicked(m)
    ELSE IF keyboard_state.keys_pressed[m.registers[op.x]]
         THEN Done(SkipNext(m))
         ELSE Done(m)

exec_skip_not_key(m, op, keyboard_state) ==
    IF m.registers[op.x] > 15
    THEN Panicked(m)
    ELSE IF ~keyboard_state.keys_pressed[m.registers[op.x]]
         THEN Done(SkipNext(m))
         ELSE Done(m)

(***************************************************************************)
(* Class 0xF.                                                              *)
(***************************************************************************)
exec_get_delay(m, op) == Done(SetRegister(m, op.x, m.delay_timer))

\* A key wait that does not step program_counter back when no key is pressed.
exec_wait_key_once(m, op, keyboard_state) ==
    IF Len(keyboard_state.pressed_key) = 1
    THEN Done(SetRegister(m, op.x, keyboard_state.pressed_key[1]))
    ELSE Done(m)

exec_wait_key(m, op, keyboard_state) ==
    IF Len(keyboard_state.pressed_key) = 1
    THEN Done(SetRegister(m, op.x, keyboard_state.pressed_key[1]))
    ELSE Done([m EXCEPT !.program_counter = m.program_counter - 2])

exec_set_delay(m, op) == Done([m EXCEPT !.delay_timer = m.registers[op.x]])

exec_set_sound(m, op) == Done([m EXCEPT !.sound_timer = m.registers[op.x]])

(***************************************************************************)
(* FX1E: a u16 addition.  Past 65535 it panics in a build with overflow    *)
(* checks and wraps in a build without them.                               *)
(***************************************************************************)
exec_add_index(m, op, overflow_checks) ==
    LET sum == m.index_register + m.registers[op.x]
    IN IF sum > U16_MODULUS - 1 /\ overflow_checks
       THEN Panicked(m)
       ELSE Done([m EXCEPT !.index_register = sum % U16_MODULUS])

exec_font(m, op) ==
    Done([m EXCEPT !.index_register =
                       FONTSET_START_ADDRESS + m.registers[op.x] * 5])

(***************************************************************************)
(* FX33: three writes, at I, I + 1 and I + 2, each of which panics when    *)
(* its address is past the end of memory; the writes before it stay.       *)
(***************************************************************************)
\* A BCD store whose addresses wrap around the end of memory.
exec_bcd_wrapped(m, op) ==
    LET value == m.registers[op.x]
        at(k) == (m.index_register + k) % MEMORY_SIZE
        m1 == [m EXCEPT !.memory = MemWrite(m.memory, at(0), value \div 100)]
        m2 == [m1 EXCEPT !.memory = MemWrite(m1.memory, at(1), (value \div 10) % 10)]
        m3 == [m2 EXCEPT !.memory = MemWrite(m2.memory, at(2), value % 10)]
    IN Done(m3)

\* A BCD store whose tens digit is not reduced modulo 10.
exec_bcd_tens(m, op) ==
    LET value == m.registers[op.x]
        i == m.index_register
        m1 == [m EXCEPT !.memory = MemWrite(m.memory, i, value \div 100)]
        m2 == [m1 EXCEPT !.memory = MemWrite(m1.memory, i + 1, value \div 10)]
        m3 == [m2 EXCEPT !.memory = MemWrite(m2.memory, i + 2, value % 10)]
    IN IF i + 2 > MEMORY_SIZE - 1 THEN Panicked(m) ELSE Done(m3)

exec_bcd(m, op) ==
    LET value == m.registers[op.x]
        i == m.index_register
        m1 == [m EXCEPT !.memory = MemWrite(m.memory, i, value \div 100)]
        m2 == [m1 EXCEPT !.memory = MemWrite(m1.memory, i + 1, (value \div 10) % 10)]
        m3 == [m2 EXCEPT !.memory = MemWrite(m2.memory, i + 2, value % 10)]
    IN IF i > MEMORY_SIZE - 1 THEN Panicked(m)
       ELSE IF i + 1 > MEMORY_SIZE - 1 THEN Panicked(m1)
       ELSE IF i + 2 > MEMORY_SIZE - 1 THEN Panicked(m2)
       ELSE Done(m3)

(***************************************************************************)
(* FX55, FX65: the register-block store and load, one register per loop    *)
(* iteration; an address past the end of memory panics, the iterations     *)
(* before it done.  Under Mode::Chip8 I is then advanced by x + 1.         *)
(***************************************************************************)
\* An index advance that does not depend on the mode.
AdvanceIndexAlways(m, op) ==
    [m EXCEPT !.index_register = m.index_register + op.x + 1]

AdvanceIndex(m, op) ==
    IF m.mode = "Chip8"
    THEN [m EXCEPT !.index_register = m.index_register + op.x + 1]
    ELSE m

RECURSIVE store_loop(_, _, _)
store_loop(m, op, i) ==
    IF i > op.x THEN Done(AdvanceIndex(m, op))
    ELSE IF m.index_register + i > MEMORY_SIZE - 1 THEN Panicked(m)
    ELSE store_loop([m EXCEPT !.memory =
                        MemWrite(m.memory, m.index_register + i, m.registers[i])],
                    op, i + 1)

exec_store(m, op) == store_loop(m, op, 0)

RECURSIVE load_loop(_, _, _)
load_loop(m, op, i) ==
    IF i > op.x THEN Done(AdvanceIndex(m, op))
    ELSE IF m.index_register + i > MEMORY_SIZE - 1 THEN Panicked(m)
    ELSE load_loop(SetRegister(m, i, MemRead(m.memory, m.index_register + i)),
                   op, i + 1)

exec_load(m, op) == load_loop(m, op, 0)

(***************************************************************************)
(* Chip8::execute: the dispatch on the decoded instruction.  env holds the *)
(* two inputs that are not part of the machine or the keyboard: the random *)
(* byte CXNN draws and whether the build checks arithmetic overflow.       *)
(***************************************************************************)
execute(m, op, keyboard_state, env) ==
    CASE op.instruction = 0 ->
            (CASE op.nn = 224 -> exec_clear(m)
               [] op.nn = 238 -> exec_return(m)
               [] OTHER -> Done(m))
      [] op.instruction = 1 -> exec_jump(m, op)
      [] op.instruction = 2 -> exec_call(m, op)
      [] op.instruction = 3 -> exec_skip_eq_nn(m, op)
      [] op.instruction = 4 -> exec_skip_ne_nn(m, op)
      [] op.instruction = 5 -> exec_skip_eq_reg(m, op)
      [] op.instruction = 6 -> exec_set_nn(m, op)
      [] op.instruction = 7 -> exec_add_nn(m, op)
      [] op.instruction = 8 ->
            (CASE op.n = 0 -> exec_mov(m, op)
               [] op.n = 1 -> exec_or(m, op)
               [] op.n = 2 -> exec_and(m, op)
               [] op.n = 3 -> exec_xor(m, op)
               [] op.n = 4 -> exec_add_reg(m, op)
               [] op.n = 5 -> exec_sub_reg(m, op)
               [] op.n = 6 -> exec_shr(m, op)
               [] op.n = 7 -> exec_subn_reg(m, op)
               [] op.n = 14 -> exec_shl(m, op)
               [] OTHER -> Done(m))
      [] op.instruction = 9 -> exec_skip_ne_reg(m, op)
      [] op.instruction = 10 -> exec_set_index(m, op)
      [] op.instruction = 11 -> exec_jump_offset(m, op)
      [] op.instruction = 12 -> exec_random(m, op, env.random)
      [] op.instruction = 13 -> exec_draw(m, op)
      [] op.instruction = 14 ->
            (CASE op.nn = 158 -> exec_skip_key(m, op, keyboard_state)
               [] op.nn = 161 -> exec_skip_not_key(m, op, keyboard_state)
               [] OTHER -> Done(m))
      [] op.instruction = 15 ->
            (CASE op.nn = 7 -> exec_get_delay(m, op)
               [] op.nn = 10 -> exec_wait_key(m, op, keyboard_state)
               [] op.nn = 21 -> exec_set_delay(m, op)
               [] op.nn = 24 -> exec_set_sound(m, op)
               [] op.nn = 30 -> exec_add_index(m, op, env.overflow_checks)
               [] op.nn = 41 -> exec_font(m, op)
               [] op.nn = 51 -> exec_bcd(m, op)
               [] op.nn = 85 -> exec_store(m, op)
               [] op.nn = 101 -> exec_load(m, op)
               [] OTHER -> Done(m))
      [] OTHER -> Done(m)

(***************************************************************************)
(* update_keyboard_state.  KEYS maps the 16 keypad keys to key codes; an   *)
(* event is nothing polled, a key event (code, kind, whether the modifiers *)
(* are exactly CONTROL) or some other terminal event.  Ctrl-C ends the     *)
(* process.                                                                *)
(***************************************************************************)
KEYS == << "x", "1", "2", "3", "q", "w", "e", "a",
           "s", "d", "z", "c", "4", "r", "f", "v" >>

NoEvent == [type |-> "None", code |-> "", kind |-> "", control |-> FALSE]
OtherEvent == [type |-> "Other", code |-> "", kind |-> "", control |-> FALSE]
KeyEvent(code, kind, control) ==
    [type |-> "Key", code |-> code, kind |-> kind, control |-> control]

RECURSIVE key_loop(_, _, _)
key_loop(state, event, i) ==
    IF i > 16 THEN state
    ELSE key_loop(
            IF event.code = KEYS[i]
            THEN CASE event.kind = "Press" ->
                        [keys_pressed |-> [state.keys_pressed EXCEPT ![i - 1] = TRUE],
                         pressed_key |-> << i - 1 >>]
                   [] event.kind = "Release" ->
                        [state EXCEPT !.keys_pressed[i - 1] = FALSE]
                   [] event.kind = "Repeat" ->
                        [state EXCEPT !.keys_pressed[i - 1] = TRUE]
            ELSE state,
            event, i + 1)

\* An update that does not reset pressed_key.
update_keyboard_state_kept(state, event) ==
    IF event.type = "Key" /\ event.code = "c" /\ event.control
    THEN [state |-> state, result |-> "exit"]
    ELSE IF event.type = "Key"
    THEN [state |-> key_loop(state, event, 1), result |-> "None"]
    ELSE [state |-> state, result |-> "None"]

update_keyboard_state(state, event) ==
    LET cleared == [state EXCEPT !.pressed_key = << >>]
    IN IF event.type = "Key" /\ event.code = "c" /\ event.control
       THEN [state |-> cleared, result |-> "exit"]
       ELSE IF event.type = "Key"
       THEN [state |-> key_loop(cleared, event, 1), result |-> "None"]
       ELSE [state |-> cleared, result |-> "None"]

(***************************************************************************)
(* The timer update of the driver loop: when more than 1000 / 60 ms have   *)
(* passed since `timer`, `timer` is reset and each nonzero timer is        *)
(* decremented once.                                                       *)
(***************************************************************************)
TIMER_MILLIS == 1000 \div 60
PACING_MILLIS == 1000 \div 700

timer_due(since_timer) == since_timer > TIMER_MILLIS

\* A timer update that decrements without the test for zero, wrapping.
update_timers_wrapping(m) ==
    [m EXCEPT !.delay_timer = (m.delay_timer - 1) % 256,
              !.sound_timer = (m.sound_timer - 1) % 256]

update_timers(m) ==
    [m EXCEPT !.delay_timer = IF m.delay_timer > 0 THEN m.delay_timer - 1 ELSE 0,
              !.sound_timer = IF m.sound_timer > 0 THEN m.sound_timer - 1 ELSE 0]

(***************************************************************************)
(* The state: the machine, the keyboard snapshot, the time in ms since the *)
(* driver's `timer` instant, whether the process runs, the command line    *)
(* options and whether the build checks arithmetic overflow.  opcode,      *)
(* action and prev record the last loop iteration: the opcode it fetched,  *)
(* the machine at its start, and how it went: "None" or "Redraw" (what     *)
(* execute returned), "panic" (execute panicked), "fetch_panic", "exit"    *)
(* (Ctrl-C); before the first iteration action is "boot", or "load_panic"  *)
(* when the program does not fit the memory.  For an iteration in which    *)
(* execute returned, cycle_millis is the time the iteration took (now -    *)
(* start) and elapsed the time since `timer` that its timer update         *)
(* compared (now - timer).                                                 *)
(***************************************************************************)
VARIABLES chip8, keyboard_state, since_timer, status, options, overflow_checks,
          opcode, action, prev, cycle_millis, elapsed

vars == << chip8, keyboard_state, since_timer, status, options, overflow_checks,
           opcode, action, prev, cycle_millis, elapsed >>

(***************************************************************************)
(* One iteration of main's loop: fetch, decode, update_keyboard_state,     *)
(* execute, the pacing wait, and the timer update.  millis is the time the *)
(* iteration takes, at least the pacing interval.                          *)
(***************************************************************************)
Halt(m, kb, how) ==
    /\ chip8' = m
    /\ keyboard_state' = kb
    /\ status' = IF how = "exit" THEN "exit" ELSE "panic"
    /\ action' = how
    /\ UNCHANGED << since_timer, cycle_millis, elapsed >>

Cycle(event, millis, random) ==
    /\ status = "running"
    /\ millis >= PACING_MILLIS
    /\ prev' = chip8
    /\ UNCHANGED << options, overflow_checks >>
    /\ LET f == fetch(chip8)
           kb == update_keyboard_state(keyboard_state, event)
           e == execute(f.machine, decode(f.opcode), kb.state,
                        [random |-> random, overflow_checks |-> overflow_checks])
       IN IF f.result = "panic"
          THEN /\ Halt(f.machine, keyboard_state, "fetch_panic")
               /\ UNCHANGED opcode
          ELSE IF kb.result = "exit"
          THEN /\ Halt(f.machine, kb.state, "exit")
               /\ opcode' = f.opcode
          ELSE IF e.result = "panic"
          THEN /\ Halt(e.machine, kb.state, "panic")
               /\ opcode' = f.opcode
          ELSE /\ opcode' = f.opcode
               /\ action' = e.result
               /\ keyboard_state' = kb.state
               /\ status' = "running"
               /\ cycle_millis' = millis
               /\ elapsed' = since_timer + millis
               /\ IF timer_due(since_timer + millis)
                  THEN /\ since_timer' = 0
                       /\ chip8' = update_timers(e.machine)
                  ELSE /\ since_timer' = since_timer + millis
                       /\ chip8' = e.machine

(***************************************************************************)
(* Programs.  A program is written as a sequence of 16-bit opcodes and     *)
(* loaded as its big-endian bytes.                                         *)
(***************************************************************************)
Assemble(words) ==
    [i \in 1 .. 2 * Len(words) |->
        IF i % 2 = 1 THEN words[(i + 1) \div 2] \div 256
        ELSE words[i \div 2] % 256]

Op(class, x, y, n) == class * 4096 + x * 256 + y * 16 + n
OpNN(class, x, nn) == class * 4096 + x * 256 + nn
OpNNN(class, nnn) == class * 4096 + nnn
At(k) == PROGRAM_START_ADDRESS + 2 * k

Halt1(k) == OpNNN(1, At(k))

\* words, then two instructions that each jump to themselves: the run stays
\* at the first, or at the second when the last word skips.
Halted(words) == words \o << Halt1(Len(words)), Halt1(Len(words) + 1) >>

\* 2200: a subroutine that calls itself.
ProgRecursion == << OpNNN(2, At(0)) >>

\* 16 nested subroutines: At(0) calls the first and a return on the empty
\* stack follows; subroutine k (at At(3 + 2k)) calls subroutine k + 1 and
\* returns, the 16th only returns.
NestDepth == STACK_SIZE
ProgNested ==
    << OpNNN(2, At(3)), 238, Halt1(2) >>
    \o [i \in 1 .. 2 * NestDepth - 1 |->
            IF i % 2 = 1 /\ i < 2 * NestDepth - 1
            THEN OpNNN(2, At(3 + i + 1))
            ELSE 238]

\* F10A: wait for a key into V1, copy it to V2 and wait again.
ProgKeyWait == << OpNN(15, 1, 10), Op(8, 2, 1, 0), OpNNN(1, At(0)) >>

\* Key skips on key 1, then on the register value 0x20.
ProgKeySkip ==
    << OpNN(6, 0, 1), OpNN(14, 0, 158), 0, OpNN(14, 0, 161), 0,
       OpNN(6, 0, 32), OpNN(14, 0, 161) >>

\* A jump to the last even address of memory.
ProgJumpEnd == << OpNNN(1, 4094) >>

\* BFFF with V0 = 0xFF.
ProgJumpOffset == << OpNN(6, 0, 255), OpNNN(11, 4095) >>

\* Stores into the glyph set: a register block at 0x050, a BCD at 0x09E.
ProgFontStore ==
    Halted(<< OpNNN(10, 80), OpNN(6, 0, 170), OpNN(6, 1, 240), OpNN(15, 1, 85) >>)
ProgFontBcd == Halted(<< OpNNN(10, 158), OpNN(6, 3, 254), OpNN(15, 3, 51) >>)

\* Both timers set and the delay timer read back in a loop.
ProgTimers ==
    << OpNN(6, 0, 3), OpNN(15, 0, 21), OpNN(6, 1, 2), OpNN(15, 1, 24),
       OpNN(15, 2, 7), OpNNN(1, At(4)) >>

\* Two bytes more than fit between 0x200 and the end of memory.
ProgTooLong ==
    [i \in 1 .. ((MEMORY_SIZE - PROGRAM_START_ADDRESS) \div 2 + 1) |-> 224]

Programs ==
    { ProgRecursion, ProgNested, ProgKeyWait, ProgKeySkip, ProgJumpEnd,
      ProgJumpOffset, ProgFontStore, ProgFontBcd, ProgTimers, ProgTooLong }

(***************************************************************************)
(* The inputs of a loop iteration: the terminal event polled, the time the *)
(* iteration takes and the random byte.                                    *)
(***************************************************************************)
Events ==
    { NoEvent, OtherEvent, KeyEvent("p", "Press", FALSE),
      KeyEvent("c", "Press", TRUE) }
    \cup { KeyEvent(c, k, FALSE) : c \in { "1", "c" },
                                   k \in { "Press", "Release", "Repeat" } }
CycleMillis == { 9, 40 }
RandomBytes == { 0, 165, 255 }

\* The random byte is read by CXNN alone.
RandomInputs(m) ==
    IF fetch(m).result = "None" /\ decode(fetch(m).opcode).instruction = 12
    THEN RandomBytes
    ELSE { 0 }

BootedAt(mode, program, checks, speed) ==
    LET l == load(new(mode), Assemble(program))
    IN /\ options = [mode |-> mode, speed |-> speed, debug |-> FALSE]
       /\ chip8 = l.machine
       /\ prev = l.machine
       /\ status = IF l.result = "panic" THEN "panic" ELSE "running"
       /\ action = IF l.result = "panic" THEN "load_panic" ELSE "boot"
       /\ keyboard_state = KeyboardStateNew
       /\ since_timer = 0
       /\ cycle_millis = 0
       /\ elapsed = 0
       /\ overflow_checks = checks
       /\ opcode = 0

\* The speed option at its default.
DEFAULT_SPEED == 700
Booted(mode, program, checks) == BootedAt(mode, program, checks, DEFAULT_SPEED)

Init ==
    \E mode \in Modes, program \in Programs, checks \in BOOLEAN :
        Booted(mode, program, checks)

Next ==
    \E event \in Events, millis \in CycleMillis, random \in RandomInputs(chip8) :
        Cycle(event, millis, random)

Spec == Init /\ [][Next]_vars

(***************************************************************************)
(* SpecExec: execute on systematically drawn operands.  Each program sets  *)
(* its operands up with 6XNN / ANNN / FX1E, runs the instructions under    *)
(* test and halts; the loop runs with no terminal event and a fixed        *)
(* iteration time.                                                         *)
(***************************************************************************)
ByteSamples == { 0, 1, 2, 127, 128, 129, 254, 255 }
XYPairs == { << 1, 2 >>, << 2, 2 >>, << 15, 3 >>, << 4, 15 >> }
RegOps == { 0, 1, 2, 3, 4, 5, 6, 7, 14 }

\* 8XYn on Vx = a, Vy = b (Vx = Vy = b when x = y).
ProgsRegOps ==
    { Halted(<< OpNN(6, xy[1], a), OpNN(6, xy[2], b), Op(8, xy[1], xy[2], n) >>) :
        xy \in XYPairs, a \in ByteSamples, b \in ByteSamples, n \in RegOps }

\* A memory instruction at I = index + bump (the bump added by FX1E, so that
\* I can pass 0xFFF), with V0, V1, V2 set.
IndexSamples == { 80, 768, 4080, 4081, 4093, 4094, 4095 }
BumpSamples == { 0, 1, 255 }
TripleSamples == { << 17, 254, 3 >>, << 0, 255, 128 >> }
MemOps ==
    { OpNN(15, 0, 51), OpNN(15, 1, 51),
      OpNN(15, 0, 85), OpNN(15, 2, 85), OpNN(15, 15, 85),
      OpNN(15, 0, 101), OpNN(15, 2, 101), OpNN(15, 15, 101),
      Op(13, 0, 1, 0), Op(13, 0, 1, 1), Op(13, 0, 1, 15) }

SetTriple(t) == << OpNN(6, 0, t[1]), OpNN(6, 1, t[2]), OpNN(6, 2, t[3]) >>

ProgsMemOps ==
    { Halted(SetTriple(t)
             \o << OpNNN(10, i), OpNN(6, 14, b), OpNN(15, 14, 30), op >>) :
        t \in TripleSamples, i \in IndexSamples, b \in BumpSamples, op \in MemOps }

\* FX55, the stored registers overwritten, then FX65: from the same I
\* (reset by ANNN) or from the I the store left.
Clobber == << OpNN(6, 0, 99), OpNN(6, 1, 98), OpNN(6, 2, 97) >>
BlockSizes == { 0, 2, 15 }
ProgsRoundTrip ==
    { Halted(SetTriple(t) \o << OpNNN(10, i), OpNN(15, x, 85) >> \o Clobber
             \o (IF reset THEN << OpNNN(10, i) >> ELSE << >>)
             \o << OpNN(15, x, 101) >>) :
        t \in TripleSamples, i \in IndexSamples, x \in BlockSizes,
        reset \in BOOLEAN }

\* I raised to 0xFFFF by 256 additions of 0xF0 to 0xFFF, then one more added.
ProgIndexOverflow ==
    Halted(<< OpNN(6, 0, 240), OpNNN(10, 4095) >>
           \o [i \in 1 .. 256 |-> OpNN(15, 0, 30)]
           \o << OpNN(6, 1, 1), OpNN(15, 1, 30) >>)

\* The skips, 6XNN, 7XNN, ANNN and CXNN on Vx = a, Vy = b, and the jumps and
\* the call to the halting instructions, BNNN with the offsets 0 and 2 in V0
\* and V2 (2 is the x of an address 0x2nn).
FlowOps(x, y, a, b) ==
    { OpNN(3, x, a), OpNN(3, x, b), OpNN(4, x, a), OpNN(4, x, b),
      Op(5, x, y, 0), Op(9, x, y, 0), OpNN(6, x, b), OpNN(7, x, b),
      OpNNN(10, 256 * x + b), OpNN(12, x, b), OpNNN(1, At(3)), OpNNN(2, At(4)) }
FlowBytes == { 0, 1, 255 }
ProgsFlow ==
    UNION { { Halted(<< OpNN(6, xy[1], a), OpNN(6, xy[2], b), op >>) :
                op \in FlowOps(xy[1], xy[2], a, b) } :
            xy \in XYPairs, a \in FlowBytes, b \in FlowBytes }
    \cup { Halted(<< OpNN(6, 0, a), OpNN(6, 2, b), OpNNN(11, At(3)) >>) :
             a \in { 0, 2 }, b \in { 0, 2 } }

\* 8125 on V1 = 0x10, V2 = 0x20.
ProgBorrow == Halted(<< OpNN(6, 1, 16), OpNN(6, 2, 32), Op(8, 1, 2, 5) >>)

ExecPrograms ==
    ProgsRegOps \cup ProgsFlow \cup ProgsMemOps \cup ProgsRoundTrip
    \cup { ProgIndexOverflow, ProgBorrow }

ExecEvents == { NoEvent }
ExecMillis == { 9 }

InitExec ==
    \E mode \in Modes, program \in ExecPrograms, checks \in BOOLEAN :
        Booted(mode, program, checks)

NextExec ==
    \E event \in ExecEvents, millis \in ExecMillis,
       random \in RandomInputs(chip8) :
        Cycle(event, millis, random)

SpecExec == InitExec /\ [][NextExec]_vars

(***************************************************************************)
(* SpecDraw: the loop on programs that draw twice.  Each sets VF, then Vx, *)
(* Vy and I and draws n rows of the sprite data that follows its code, and *)
(* then draws again: the same sprite at the same place, or with the        *)
(* anchor, the height or the sprite changed.                               *)
(***************************************************************************)
SpriteData == << 65409, 60, 50175, 384, 43605, 65304, 9282, 39423 >>
DrawColumns == { 0, 60, 63, 64, 252, 255 }
DrawRows == { 0, 30, 31, 32, 94, 255 }
DrawHeights == { 0, 1, 4, 15 }
DrawSprites == { 0, 1 }

DrawSetup(a, b, sprite) ==
    << OpNN(6, 1, a), OpNN(6, 2, b), OpNNN(10, At(11) + sprite) >>

ProgsDraw ==
    { Halted(<< OpNN(6, 15, 1) >>
             \o DrawSetup(a, b, sprite) \o << Op(13, 1, 2, n) >>
             \o DrawSetup((a + shift[1]) % 256, (b + shift[2]) % 256,
                           IF same_sprite THEN sprite ELSE 5)
             \o << Op(13, 1, 2, IF same_height THEN n ELSE 1) >>)
      \o SpriteData :
        a \in DrawColumns, b \in DrawRows, n \in DrawHeights,
        sprite \in DrawSprites, shift \in { << 0, 0 >>, << 3, 1 >> },
        same_height \in BOOLEAN, same_sprite \in BOOLEAN }

\* Draws anchored by VF itself (DF2n, D1Fn): the anchor is read before VF is
\* reset.
ProgsDrawFlag ==
    { Halted(<< OpNN(6, 15, f), OpNN(6, 1, 60), OpNN(6, 2, 30),
                OpNNN(10, At(11)), op, op, 0, 0, 0 >>)
      \o SpriteData :
        f \in { 1, 255 }, op \in { Op(13, 15, 2, 4), Op(13, 1, 15, 4) } }

InitDraw ==
    \E mode \in Modes, program \in ProgsDraw \cup ProgsDrawFlag :
        Booted(mode, program, TRUE)

SpecDraw == InitDraw /\ [][NextExec]_vars

(***************************************************************************)
(* SpecSpeed: the loop started with different values of the speed option,  *)
(* with iterations as short as the pacing interval.                        *)
(***************************************************************************)
Speeds == { 100, DEFAULT_SPEED, 1000 }
SpeedMillis == { PACING_MILLIS, 9, 40 }

InitSpeed ==
    \E mode \in Modes, program \in { ProgTimers, ProgKeyWait },
       speed \in Speeds :
        BootedAt(mode, program, TRUE, speed)

NextSpeed ==
    \E event \in ExecEvents, millis \in SpeedMillis,
       random \in RandomInputs(chip8) :
        Cycle(event, millis, random)

SpecSpeed == InitSpeed /\ [][NextSpeed]_vars

(***************************************************************************)
(* SpecKeys: the loop on the key-wait program with press, release and      *)
(* repeat events of four keypad keys (the first and the last of KEYS       *)
(* among them), with and without the CONTROL modifier, of an unmapped key, *)
(* and the other terminal events.                                          *)
(***************************************************************************)
KeyKinds == { "Press", "Release", "Repeat" }
KeysEvents ==
    { NoEvent, OtherEvent }
    \cup { KeyEvent(code, kind, FALSE) :
             code \in { "x", "1", "c", "v", "p" }, kind \in KeyKinds }
    \cup { KeyEvent(code, kind, TRUE) : code \in { "c", "v" }, kind \in KeyKinds }

InitKeys == \E mode \in Modes : Booted(mode, ProgKeyWait, TRUE)

NextKeys ==
    \E event \in KeysEvents, millis \in ExecMillis,
       random \in RandomInputs(chip8) :
        Cycle(event, millis, random)

SpecKeys == InitKeys /\ [][NextKeys]_vars

(***************************************************************************)
(* SpecBlock: the loop on the register-block programs alone, for the       *)
(* properties that apply FX55 / FX65 to every machine reached.             *)
(***************************************************************************)
InitBlock ==
    \E mode \in Modes, program \in ProgsRoundTrip, checks \in BOOLEAN :
        Booted(mode, program, checks)

SpecBlock == InitBlock /\ [][NextExec]_vars

(***************************************************************************)
(* What the last loop iteration did, for the properties below.             *)
(***************************************************************************)
\* execute ran in the last iteration, on Last, from the machine Before.
Executed == action \in { "None", "Redraw", "panic" }
\* ... and returned.
Completed == action \in { "None", "Redraw" }
Last == decode(opcode)
Before == fetch(prev).machine

IsStore == Last.instruction = 15 /\ Last.nn = 85
IsLoad == Last.instruction = 15 /\ Last.nn = 101
IsBcd == Last.instruction = 15 /\ Last.nn = 51
IsDraw == Last.instruction = 13

\* The addresses the last instruction's memory access covers.
AccessFirst == Before.index_register
AccessLast ==
    IF IsDraw THEN Before.index_register + Last.n - 1
    ELSE IF IsBcd THEN Before.index_register + 2
    ELSE Before.index_register + Last.x
\* The instruction is one of the four that access memory at I, and the
\* access reaches an address above 4095.
TouchesAbove ==
    /\ IsDraw \/ IsBcd \/ IsStore \/ IsLoad
    /\ AccessLast >= AccessFirst
    /\ AccessLast > MEMORY_SIZE - 1

(***************************************************************************)
(* C1: stack_pointer stays in -1 .. 15, and a call (2NNN) executed with 16 *)
(* return addresses on the stack does not fail.                            *)
(* The code increments stack_pointer to 16 and panics on stack[16].        *)
(***************************************************************************)
C1_StackPointerInRange ==
    /\ chip8.stack_pointer \in -1 .. (STACK_SIZE - 1)
    /\ ~(action = "panic" /\ Last.instruction = 2)

(***************************************************************************)
(* C2: program_counter is in 0x200 .. 0xFFE in every reachable state, so   *)
(* every fetch reads two bytes inside the memory.                          *)
(* A jump sets it to any nnn, and a fetch at 0xFFE leaves it at 0x1000,    *)
(* where the next fetch panics.                                            *)
(***************************************************************************)
C2_ProgramCounterInRange ==
    /\ chip8.program_counter \in PROGRAM_START_ADDRESS .. (MEMORY_SIZE - 2)
    /\ action # "fetch_panic"

(***************************************************************************)
(* C3: a sprite draw, BCD store or register-block store/load that would    *)
(* touch an address above 4095 fails (execute does not return), and no     *)
(* wrapped or truncated address is read or written instead: memory is      *)
(* changed only at the addresses of the access that are in range, the      *)
(* display is not drawn to, and a register changed by the load holds the   *)
(* byte at its own in-range address.                                       *)
(***************************************************************************)
C3_OutOfRangeAccessFails ==
    (Executed /\ TouchesAbove) =>
        /\ action = "panic"
        /\ \A a \in Addresses :
              MemRead(chip8.memory, a) # MemRead(prev.memory, a)
                  => (IsStore \/ IsBcd) /\ a >= AccessFirst
        /\ chip8.display = prev.display
        /\ \A r \in RegisterIds :
              chip8.registers[r] # prev.registers[r] =>
                  \/ IsDraw /\ r = 15 /\ chip8.registers[r] = 0
                  \/ /\ IsLoad
                     /\ AccessFirst + r <= MEMORY_SIZE - 1
                     /\ chip8.registers[r] = MemRead(prev.memory, AccessFirst + r)

\* Witness: FX55 with I + x past the end of memory was executed and panicked
\* after storing the registers that fit.
C3_Witness ==
    /\ action = "panic" /\ IsStore /\ Last.x = 2
    /\ AccessFirst = 4094
    /\ MemRead(chip8.memory, 4094) = 17 /\ MemRead(chip8.memory, 4095) = 254

(***************************************************************************)
(* C4: execute fails only on an out-of-range memory access of DXYN, FX33,  *)
(* FX55 or FX65; every other instruction completes, EX9E / EXA1 for every  *)
(* Vx in 0 .. 255 and FX1E for every I and Vx.                             *)
(* EX9E / EXA1 index keys_pressed with Vx and panic for Vx > 15; 2NNN      *)
(* panics on the full stack; FX1E panics past 0xFFFF when overflow is      *)
(* checked.                                                                *)
(***************************************************************************)
C4_ExecuteFailsOnlyOnMemoryRange == action = "panic" => TouchesAbove

(***************************************************************************)
(* C5 as claimed: the 80 glyph bytes at 0x050 .. 0x09F equal the glyph     *)
(* table in every reachable state.                                         *)
(* FX55 and FX33 write wherever I points, the glyph bytes included.        *)
(***************************************************************************)
GlyphAddresses ==
    FONTSET_START_ADDRESS .. (FONTSET_START_ADDRESS + Len(FONTSET) - 1)

C5_GlyphsNeverChange ==
    \A a \in GlyphAddresses :
        MemRead(chip8.memory, a) = FONTSET[a - FONTSET_START_ADDRESS + 1]

(***************************************************************************)
(* C5 amended: the glyph bytes equal the glyph table after construction    *)
(* and load, and a loop iteration changes a glyph byte only when it        *)
(* executes FX55 or FX33 and the byte is in the range the instruction      *)
(* writes (I .. I + x, I .. I + 2).                                        *)
(***************************************************************************)
C5_GlyphsChangedOnlyByStores ==
    /\ action \in { "boot", "load_panic" } => C5_GlyphsNeverChange
    /\ \A a \in GlyphAddresses :
          MemRead(chip8.memory, a) # MemRead(prev.memory, a) =>
              /\ Executed
              /\ IsStore \/ IsBcd
              /\ a \in AccessFirst .. AccessLast

\* Witness: FX55 executed with I = 0x050 replaced the first glyph byte.
C5_Witness ==
    /\ action = "None" /\ IsStore /\ AccessFirst = FONTSET_START_ADDRESS
    /\ MemRead(prev.memory, FONTSET_START_ADDRESS) = FONTSET[1]
    /\ MemRead(chip8.memory, FONTSET_START_ADDRESS) = 170

(***************************************************************************)
(* C6: key wait.  An iteration that executes FX0A with no press in the     *)
(* keyboard snapshot leaves program_counter where it was before the fetch, *)
(* with registers and memory unchanged, so the next iteration fetches the  *)
(* same FX0A; with a pressed key k in the snapshot it sets Vx to k         *)
(* and leaves program_counter 2 past the FX0A.                             *)
(***************************************************************************)
C6_KeyWait ==
    (Executed /\ Last.instruction = 15 /\ Last.nn = 10) =>
        /\ action = "None"
        /\ IF keyboard_state.pressed_key = << >>
           THEN /\ chip8.program_counter = prev.program_counter
                /\ chip8.registers = prev.registers
                /\ chip8.memory = prev.memory
                /\ fetch(chip8).opcode = opcode
           ELSE /\ chip8.registers =
                       [prev.registers EXCEPT ![Last.x] = keyboard_state.pressed_key[1]]
                /\ chip8.program_counter = prev.program_counter + 2

\* Witness: after a first key (1) was stored, FX0A was executed with key 0xB
\* pressed and stored it.
C6_Witness ==
    /\ action = "None" /\ opcode = OpNN(15, 1, 10)
    /\ keyboard_state.pressed_key = << 11 >>
    /\ prev.registers[1] = 1 /\ chip8.registers[1] = 11
    /\ chip8.program_counter = prev.program_counter + 2

(***************************************************************************)
(* C7: program-counter stepping.  An iteration executing an instruction of *)
(* classes 0x1 - 0xC leaves program_counter at nnn after 1NNN and 2NNN, at *)
(* nnn + V0 (Chip8) or nnn + Vx (Chip48) after BNNN, 4 above its value     *)
(* before the fetch after a skip whose condition holds, and 2 above it     *)
(* otherwise.                                                              *)
(* 2NNN on the full stack panics and leaves program_counter at the         *)
(* instruction after the call (see C1).                                    *)
(***************************************************************************)
SkipHolds ==
    \/ Last.instruction = 3 /\ Before.registers[Last.x] = Last.nn
    \/ Last.instruction = 4 /\ Before.registers[Last.x] # Last.nn
    \/ Last.instruction = 5 /\ Before.registers[Last.x] = Before.registers[Last.y]
    \/ Last.instruction = 9 /\ Before.registers[Last.x] # Before.registers[Last.y]

SteppedCounter ==
    IF Last.instruction \in { 1, 2 } THEN Last.nnn
    ELSE IF Last.instruction = 11
    THEN Last.nnn + (IF prev.mode = "Chip8" THEN Before.registers[0]
                     ELSE Before.registers[Last.x])
    ELSE IF SkipHolds THEN prev.program_counter + 4
    ELSE prev.program_counter + 2

C7_ProgramCounterStepping ==
    (Executed /\ Last.instruction \in 1 .. 12) =>
        chip8.program_counter = SteppedCounter

\* The same for the iterations in which execute returns.
SteppingWhenCompleted ==
    (Completed /\ Last.instruction \in 1 .. 12) =>
        chip8.program_counter = SteppedCounter

(***************************************************************************)
(* C8: return and call pairing.  A call pushes the address of the next     *)
(* instruction above the entries in use, leaving them unchanged; 00EE on a *)
(* non-empty stack sets program_counter to the top entry and removes it,   *)
(* the entries below unchanged, so returns resume callers last-in          *)
(* first-out, each at the instruction after a 2NNN; 00EE on the            *)
(* empty stack leaves stack_pointer, the stack and the registers unchanged *)
(* and program_counter at the next instruction.                            *)
(***************************************************************************)
IsReturn == Last.instruction = 0 /\ Last.nn = 238
IsCall == Last.instruction = 2
InUse(m) == [i \in 0 .. m.stack_pointer |-> m.stack[i]]

C8_ReturnCallPairing ==
    /\ (Completed /\ IsCall) =>
          /\ chip8.stack_pointer = prev.stack_pointer + 1
          /\ chip8.stack =
                [prev.stack EXCEPT ![chip8.stack_pointer] = prev.program_counter + 2]
          /\ chip8.program_counter = Last.nnn
    /\ (Executed /\ IsReturn) =>
          /\ action = "None"
          /\ chip8.stack = prev.stack
          /\ chip8.registers = prev.registers
          /\ IF prev.stack_pointer >= 0
             THEN /\ chip8.program_counter = prev.stack[prev.stack_pointer]
                  /\ chip8.stack_pointer = prev.stack_pointer - 1
             ELSE /\ chip8.program_counter = prev.program_counter + 2
                  /\ chip8.stack_pointer = -1
    /\ (Executed /\ ~IsCall /\ ~IsReturn) => InUse(chip8) = InUse(prev)
    /\ \A i \in 0 .. Min(chip8.stack_pointer, STACK_SIZE - 1) :
          decode(fetch([chip8 EXCEPT !.program_counter =
                           chip8.stack[i] - 2]).opcode).instruction = 2

\* Witness: the outermost of 16 nested subroutines returned; the sixteenth
\* stack entry has been in use.
C8_Witness ==
    /\ action = "None" /\ IsReturn
    /\ prev.stack_pointer = 0 /\ chip8.stack_pointer = -1
    /\ chip8.stack[STACK_SIZE - 1] # 0
    /\ chip8.program_counter = At(1)

(***************************************************************************)
(* C9: shift quirk.  After 8XY6 / 8XYE the operand is Vy under Chip8 and   *)
(* the prior Vx under Chip48; VF is the operand's low bit (8XY6) or high   *)
(* bit (8XYE) and, for x # 0xF, Vx is the operand shifted right by one     *)
(* (8XY6) or left by one modulo 256 (8XYE).  Under Chip48 the result is a  *)
(* function of the prior Vx alone and Vy (y # x, y # 0xF) is unchanged.    *)
(***************************************************************************)
IsShiftRight == Last.instruction = 8 /\ Last.n = 6
IsShiftLeft == Last.instruction = 8 /\ Last.n = 14
Operand ==
    IF prev.mode = "Chip8" THEN prev.registers[Last.y] ELSE prev.registers[Last.x]

C9_ShiftQuirk ==
    (Executed /\ (IsShiftRight \/ IsShiftLeft)) =>
        /\ action = "None"
        /\ chip8.registers[15] =
              (IF IsShiftRight THEN Operand % 2 ELSE Operand \div 128)
        /\ Last.x # 15 =>
              chip8.registers[Last.x] =
                 (IF IsShiftRight THEN Operand \div 2 ELSE (Operand * 2) % 256)
        /\ (prev.mode = "Chip48" /\ Last.y # Last.x /\ Last.y # 15) =>
              chip8.registers[Last.y] = prev.registers[Last.y]
        /\ \A r \in RegisterIds \ { Last.x, 15 } :
              chip8.registers[r] = prev.registers[r]

\* Witness: 8126 under Chip48 with V1 = 129 and V2 = 2: V1 = 64, VF = 1,
\* where the Chip8 operand V2 gives V1 = 1, VF = 0.
C9_Witness ==
    /\ action = "None" /\ opcode = Op(8, 1, 2, 6) /\ prev.mode = "Chip48"
    /\ prev.registers[1] = 129 /\ prev.registers[2] = 2
    /\ chip8.registers[1] = 64 /\ chip8.registers[15] = 1

(***************************************************************************)
(* C10: register-block round trip.  From any machine and for every x with  *)
(* I + x in range: FX55, then (the registers overwritten and I set back)   *)
(* FX65 from the same I restores V0 .. Vx and leaves every memory byte     *)
(* outside I .. I + x as it was; each of the two leaves I increased by     *)
(* x + 1 under Chip8 and unchanged under Chip48; a second FX55 right after *)
(* the first, at the advanced I, changes only the x + 1 bytes from there.  *)
(***************************************************************************)
Outside(memory, first, last) ==
    [a \in DOMAIN memory \ (first .. last) |-> memory[a]]

RoundTrip(m, x) ==
    LET env == [random |-> 0, overflow_checks |-> overflow_checks]
        i == m.index_register
        step == IF m.mode = "Chip8" THEN x + 1 ELSE 0
        stored == execute(m, decode(OpNN(15, x, 85)), keyboard_state, env)
        overwritten ==
            [stored.machine EXCEPT
                !.registers = [r \in RegisterIds |-> 255 - m.registers[r]],
                !.index_register = i]
        loaded == execute(overwritten, decode(OpNN(15, x, 101)), keyboard_state, env)
        again == execute(stored.machine, decode(OpNN(15, x, 85)), keyboard_state, env)
    IN /\ stored.result = "None" /\ loaded.result = "None"
       /\ \A r \in 0 .. x : loaded.machine.registers[r] = m.registers[r]
       /\ Outside(loaded.machine.memory, i, i + x) = Outside(m.memory, i, i + x)
       /\ stored.machine.index_register = i + step
       /\ loaded.machine.index_register = i + step
       /\ (m.mode = "Chip8" /\ i + step + x <= MEMORY_SIZE - 1) =>
             /\ again.result = "None"
             /\ Outside(again.machine.memory, i + step, i + step + x)
                   = Outside(stored.machine.memory, i + step, i + step + x)
             /\ \A r \in 0 .. x :
                   MemRead(again.machine.memory, i + step + r) = m.registers[r]

C10_RegisterBlockRoundTrip ==
    \A x \in RegisterIds :
        chip8.index_register + x <= MEMORY_SIZE - 1 => RoundTrip(chip8, x)

\* Witness: a program stored V0 .. V2 = 17, 254, 3 at 0xFF0, overwrote them
\* with 99, 98, 97, set I back and loaded them again.
C10_Witness ==
    /\ action = "None" /\ opcode = OpNN(15, 2, 101)
    /\ Before.index_register = 4080
    /\ prev.registers[0] = 99 /\ prev.registers[1] = 98 /\ prev.registers[2] = 97
    /\ chip8.registers[0] = 17 /\ chip8.registers[1] = 254 /\ chip8.registers[2] = 3

(***************************************************************************)
(* The sprite draw, for C11 - C13.  The anchor of the last draw, the       *)
(* pixels its set sprite bits land on inside the framebuffer, and the      *)
(* pixels it changed.                                                      *)
(***************************************************************************)
AnchorX == Before.registers[Last.x] % DISPLAY_WIDTH
AnchorY == Before.registers[Last.y] % DISPLAY_HEIGHT
SetBits ==
    { << AnchorY + p[1], AnchorX + p[2] >> :
        p \in { q \in (0 .. Last.n - 1) \X (0 .. 7) :
                  /\ AnchorY + q[1] <= DISPLAY_HEIGHT - 1
                  /\ AnchorX + q[2] <= DISPLAY_WIDTH - 1
                  /\ Bit(MemRead(Before.memory, Before.index_register + q[1]),
                         7 - q[2]) = 1 } }
Changed == (chip8.display \ prev.display) \cup (prev.display \ chip8.display)

(***************************************************************************)
(* C11: sprite collision flag.  After a draw VF is 1 if and only if a set  *)
(* sprite bit landed inside the framebuffer on a pixel that was lit, and 0 *)
(* otherwise, whatever VF was before; the pixels changed are exactly those *)
(* the set sprite bits land on, each toggled; no other register changes.   *)
(***************************************************************************)
C11_CollisionFlag ==
    (Completed /\ IsDraw) =>
        /\ action = "Redraw"
        /\ chip8.registers[15] = (IF SetBits \cap prev.display # {} THEN 1 ELSE 0)
        /\ Changed = SetBits
        /\ \A r \in RegisterIds \ { 15 } : chip8.registers[r] = prev.registers[r]

\* Witness: a draw whose only collisions were in its first row and whose
\* later rows lit pixels without collision left VF = 1.
C11_Witness ==
    /\ Completed /\ IsDraw
    /\ chip8.registers[15] = 1
    /\ \A p \in SetBits \cap prev.display : p[1] = AnchorY
    /\ \E p \in SetBits \ prev.display : p[1] > AnchorY

(***************************************************************************)
(* C12: sprite self-cancellation.  After a draw, the same draw once more   *)
(* (same I, n, Vx, Vy) gives back the framebuffer from before the first;   *)
(* when the first lit only unlit pixels, and at least one, the second      *)
(* leaves VF = 1.                                                          *)
(***************************************************************************)
SameAnchor ==
    /\ chip8.registers[Last.x] = Before.registers[Last.x]
    /\ chip8.registers[Last.y] = Before.registers[Last.y]

C12_SelfCancellation ==
    (Completed /\ IsDraw /\ SameAnchor) =>
        LET again == execute(chip8, Last, keyboard_state,
                             [random |-> 0, overflow_checks |-> overflow_checks])
        IN /\ again.result = "Redraw"
           /\ again.machine.display = prev.display
           /\ (SetBits # {} /\ SetBits \cap prev.display = {}) =>
                 again.machine.registers[15] = 1

\* Witness: a program drew the one-row sprite 0xFF twice at the same place:
\* the second draw turned the eight pixels off and set VF.
C12_Witness ==
    /\ Completed /\ IsDraw /\ Last.n = 1
    /\ MemRead(Before.memory, Before.index_register) = 255
    /\ Cardinality(prev.display) = 8
    /\ prev.display = SetBits
    /\ chip8.display = {}
    /\ chip8.registers[15] = 1

(***************************************************************************)
(* C13: sprite anchoring and clipping.  A draw changes pixels only in rows *)
(* Vy mod 32 .. min(Vy mod 32 + n - 1, 31) and columns Vx mod 64 ..        *)
(* min(Vx mod 64 + 7, 63), none at a wrapped-around row or column, and     *)
(* when the first sprite bit is set it changes the anchor pixel.           *)
(***************************************************************************)
C13_AnchoringAndClipping ==
    (Completed /\ IsDraw) =>
        /\ \A p \in Changed :
              /\ p[1] \in AnchorY .. Min(AnchorY + Last.n - 1, DISPLAY_HEIGHT - 1)
              /\ p[2] \in AnchorX .. Min(AnchorX + 7, DISPLAY_WIDTH - 1)
        /\ (Last.n >= 1
            /\ MemRead(Before.memory, Before.index_register) >= 128) =>
              << AnchorY, AnchorX >> \in Changed

\* Witness: 4 rows drawn at Vx = 252, Vy = 94 (column 60, row 30) changed
\* pixels in rows 30 and 31 and columns 60 .. 63 only; the fourth sprite
\* row is not empty.
C13_Witness ==
    /\ Completed /\ IsDraw /\ Last.n = 4
    /\ Before.registers[Last.x] = 252 /\ Before.registers[Last.y] = 94
    /\ MemRead(Before.memory, Before.index_register + 3) # 0
    /\ { p[1] : p \in Changed } = { 30, 31 }
    /\ { p[2] : p \in Changed } = 60 .. 63

(***************************************************************************)
(* C14: addition.  7XNN sets Vx to (Vx + nn) mod 256 and changes no other  *)
(* register; 8XY4 sets VF to 1 if and only if Vx + Vy > 255 and, for       *)
(* x # 0xF, Vx to (Vx + Vy) mod 256; neither fails.                        *)
(***************************************************************************)
IsAddNN == Last.instruction = 7
IsAddReg == Last.instruction = 8 /\ Last.n = 4
OthersUnchanged ==
    \A r \in RegisterIds \ { Last.x, 15 } : chip8.registers[r] = prev.registers[r]

C14_Addition ==
    /\ (Executed /\ IsAddNN) =>
          /\ action = "None"
          /\ chip8.registers =
                [prev.registers EXCEPT
                    ![Last.x] = (prev.registers[Last.x] + Last.nn) % 256]
    /\ (Executed /\ IsAddReg) =>
          /\ action = "None"
          /\ chip8.registers[15] =
                (IF prev.registers[Last.x] + prev.registers[Last.y] > 255
                 THEN 1 ELSE 0)
          /\ Last.x # 15 =>
                chip8.registers[Last.x] =
                   (prev.registers[Last.x] + prev.registers[Last.y]) % 256
          /\ OthersUnchanged

\* Witness: 8124 with V1 = 255, V2 = 2 wrapped to V1 = 1 with VF = 1.
C14_Witness ==
    /\ action = "None" /\ opcode = Op(8, 1, 2, 4)
    /\ prev.registers[1] = 255 /\ prev.registers[2] = 2
    /\ chip8.registers[1] = 1 /\ chip8.registers[15] = 1

(***************************************************************************)
(* C15: subtraction.  8XY5 sets VF to 1 if and only if Vx >= Vy and, for   *)
(* x # 0xF, Vx to (Vx - Vy) mod 256; 8XY7 sets VF to 1 if and only if      *)
(* Vy >= Vx and, for x # 0xF, Vx to (Vy - Vx) mod 256.                     *)
(***************************************************************************)
IsSubReg == Last.instruction = 8 /\ Last.n = 5
IsSubnReg == Last.instruction = 8 /\ Last.n = 7
Minuend == IF IsSubReg THEN prev.registers[Last.x] ELSE prev.registers[Last.y]
Subtrahend == IF IsSubReg THEN prev.registers[Last.y] ELSE prev.registers[Last.x]

C15_Subtraction ==
    (Executed /\ (IsSubReg \/ IsSubnReg)) =>
        /\ action = "None"
        /\ chip8.registers[15] = (IF Minuend >= Subtrahend THEN 1 ELSE 0)
        /\ Last.x # 15 =>
              chip8.registers[Last.x] = (Minuend - Subtrahend + 256) % 256
        /\ OthersUnchanged

\* Witness: 8125 with V1 = 0x10, V2 = 0x20 gave V1 = 0xF0, VF = 0.
C15_Witness ==
    /\ action = "None" /\ opcode = Op(8, 1, 2, 5)
    /\ prev.registers[1] = 16 /\ prev.registers[2] = 32
    /\ chip8.registers[1] = 240 /\ chip8.registers[15] = 0

(***************************************************************************)
(* C16: logic-op flag quirk.  After 8XY1, 8XY2, 8XY3: under Chip8 VF = 0;  *)
(* under Chip48 VF is unchanged for x # 0xF; under both, for x # 0xF, each *)
(* bit of Vx is the OR, AND, XOR of that bit of the prior Vx and of Vy,    *)
(* and no other register changes.                                          *)
(***************************************************************************)
IsLogic == Last.instruction = 8 /\ Last.n \in { 1, 2, 3 }
LogicBit(a, b) ==
    IF Last.n = 1 THEN (IF a = 1 \/ b = 1 THEN 1 ELSE 0)
    ELSE IF Last.n = 2 THEN (IF a = 1 /\ b = 1 THEN 1 ELSE 0)
    ELSE (IF a # b THEN 1 ELSE 0)

C16_LogicFlagQuirk ==
    (Executed /\ IsLogic) =>
        /\ action = "None"
        /\ prev.mode = "Chip8" => chip8.registers[15] = 0
        /\ (prev.mode = "Chip48" /\ Last.x # 15) =>
              chip8.registers[15] = prev.registers[15]
        /\ Last.x # 15 =>
              /\ chip8.registers[Last.x] \in Bytes
              /\ \A i \in 0 .. 7 :
                    Bit(chip8.registers[Last.x], i) =
                       LogicBit(Bit(prev.registers[Last.x], i),
                                Bit(prev.registers[Last.y], i))
        /\ OthersUnchanged

\* Witness: 84F3 under Chip48 with V4 = 129 and VF = 127: V4 = 254 and VF
\* still 127, where Chip8 clears it.
C16_Witness ==
    /\ action = "None" /\ opcode = Op(8, 4, 15, 3) /\ prev.mode = "Chip48"
    /\ prev.registers[4] = 129 /\ prev.registers[15] = 127
    /\ chip8.registers[4] = 254 /\ chip8.registers[15] = 127

(***************************************************************************)
(* C17: BCD store.  FX33 with I .. I + 2 in range leaves at I, I + 1,      *)
(* I + 2 three digits in 0 .. 9 whose decimal value is Vx, and changes no  *)
(* other memory byte, no register and not I: in the iteration that         *)
(* executed it, and for every value of Vx in 0 .. 255 from the same        *)
(* machine.                                                                *)
(***************************************************************************)
BcdStored(m, after, x) ==
    LET i == m.index_register
        d(k) == MemRead(after.memory, i + k)
    IN /\ \A k \in 0 .. 2 : d(k) \in 0 .. 9
       /\ 100 * d(0) + 10 * d(1) + d(2) = m.registers[x]
       /\ Outside(after.memory, i, i + 2) = Outside(m.memory, i, i + 2)
       /\ after.registers = m.registers
       /\ after.index_register = i

C17_BcdStore ==
    (Executed /\ IsBcd /\ AccessLast <= MEMORY_SIZE - 1) =>
        /\ action = "None"
        /\ BcdStored(Before, chip8, Last.x)
        /\ \A v \in Bytes :
              LET m == SetRegister(Before, Last.x, v)
                  e == execute(m, Last, keyboard_state,
                               [random |-> 0, overflow_checks |-> overflow_checks])
              IN e.result = "None" /\ BcdStored(m, e.machine, Last.x)

\* Witness: F133 with V1 = 254 at I = 0x300 stored 2, 5, 4.
C17_Witness ==
    /\ action = "None" /\ opcode = OpNN(15, 1, 51)
    /\ prev.registers[1] = 254 /\ Before.index_register = 768
    /\ MemRead(chip8.memory, 768) = 2
    /\ MemRead(chip8.memory, 769) = 5
    /\ MemRead(chip8.memory, 770) = 4

(***************************************************************************)
(* C18: timers.  Both timers are in 0 .. 255 in every state.  In an        *)
(* iteration the instruction sets delay_timer only if it is FX15 and       *)
(* sound_timer only if it is FX18 (to Vx), and the timer update, when it   *)
(* runs, then takes exactly 1 from each nonzero timer and leaves a zero    *)
(* timer at 0.  So a timer set to v is 0 after v updates and stays 0.      *)
(***************************************************************************)
IsSetDelay == Last.instruction = 15 /\ Last.nn = 21
IsSetSound == Last.instruction = 15 /\ Last.nn = 24
\* The timer update ran in the last iteration: it restarts `timer`.
Ticked == Completed /\ since_timer = 0
Tick(v) == IF v > 0 THEN v - 1 ELSE 0
AfterInstruction(timer, set) == IF set THEN Before.registers[Last.x] ELSE timer

C18_Timers ==
    /\ chip8.delay_timer \in Bytes
    /\ chip8.sound_timer \in Bytes
    /\ Completed =>
          LET delay == AfterInstruction(prev.delay_timer, IsSetDelay)
              sound == AfterInstruction(prev.sound_timer, IsSetSound)
          IN /\ chip8.delay_timer = (IF Ticked THEN Tick(delay) ELSE delay)
             /\ chip8.sound_timer = (IF Ticked THEN Tick(sound) ELSE sound)
    /\ ~Completed =>
          /\ chip8.delay_timer = prev.delay_timer
          /\ chip8.sound_timer = prev.sound_timer

\* Witness: the delay timer, set to 3, has reached 0 and been read back as
\* 0; a timer update took the sound timer, set to 2, from 1 to 0 and left
\* the delay timer at 0.
C18_Witness ==
    /\ Ticked
    /\ chip8.registers[0] = 3 /\ chip8.registers[1] = 2
    /\ chip8.registers[2] = 0 /\ opcode = OpNN(15, 2, 7)
    /\ prev.delay_timer = 0 /\ chip8.delay_timer = 0
    /\ prev.sound_timer = 1 /\ chip8.sound_timer = 0

(***************************************************************************)
(* C19: timer cadence.  The timers are decremented once per 1/60 s of      *)
(* elapsed time, however many instructions run: an iteration whose timer   *)
(* update finds `elapsed` ms passed since the last one takes one from each *)
(* timer for every whole 1/60 s period in it.                              *)
(* The update runs at most once per loop iteration and restarts `timer`    *)
(* at the current instant, so an iteration of 40 ms takes 1, not 2.        *)
(***************************************************************************)
ElapsedPeriods == (elapsed * 60) \div 1000
Ticks(v, k) == IF v > k THEN v - k ELSE 0

C19_TimerCadence ==
    Completed =>
        /\ chip8.delay_timer =
              Ticks(AfterInstruction(prev.delay_timer, IsSetDelay), ElapsedPeriods)
        /\ chip8.sound_timer =
              Ticks(AfterInstruction(prev.sound_timer, IsSetSound), ElapsedPeriods)

(***************************************************************************)
(* C20: instruction cadence.  The pacing interval of a loop iteration is   *)
(* derived from the speed option: an iteration takes at least 1000 / speed *)
(* ms.                                                                     *)
(* The pacing wait is the literal 1_000 / 700 ms; options.speed is not     *)
(* read.                                                                   *)
(***************************************************************************)
C20_PacingFromSpeed == Completed => cycle_millis >= 1000 \div options.speed

(***************************************************************************)
(* C21: keyboard snapshot consistency.  In every snapshot the loop holds,  *)
(* pressed_key = Some(k) implies k in 0 .. 15 and keys_pressed[k].  From   *)
(* every such snapshot and for every terminal event, the update leaves     *)
(* pressed_key = Some(k) exactly when the event it read is a press of      *)
(* keypad key k, and none otherwise, so a press is seen by the execute of  *)
(* the iteration that read it and by no later one; keys_pressed[k] becomes *)
(* true on a press or repeat of key k, false on its release, and is        *)
(* otherwise unchanged.                                                    *)
(***************************************************************************)
Consistent(state) ==
    /\ Len(state.pressed_key) <= 1
    /\ \A i \in 1 .. Len(state.pressed_key) :
          /\ state.pressed_key[i] \in 0 .. 15
          /\ state.keys_pressed[state.pressed_key[i]]

\* Every terminal event: nothing, another event, or a key event of a keypad
\* key or an unmapped one.
AllEvents ==
    { NoEvent, OtherEvent }
    \cup { KeyEvent(code, kind, control) :
             code \in { KEYS[i] : i \in 1 .. 16 } \cup { "p" },
             kind \in KeyKinds, control \in BOOLEAN }

IsKeypadEvent(event, k) == event.type = "Key" /\ event.code = KEYS[k + 1]

UpdateAsClaimed(state, event) ==
    LET u == update_keyboard_state(state, event)
    IN IF event.type = "Key" /\ event.code = "c" /\ event.control
       THEN u.result = "exit"
       ELSE /\ u.result = "None"
            /\ Consistent(u.state)
            /\ \A k \in 0 .. 15 :
                  /\ u.state.pressed_key = << k >>
                        <=> (IsKeypadEvent(event, k) /\ event.kind = "Press")
                  /\ u.state.keys_pressed[k] =
                        IF IsKeypadEvent(event, k)
                        THEN event.kind \in { "Press", "Repeat" }
                        ELSE state.keys_pressed[k]

C21_KeyboardSnapshot ==
    /\ Consistent(keyboard_state)
    /\ \A event \in AllEvents : UpdateAsClaimed(keyboard_state, event)

\* Witness: FX0A took the press of key 1 into V1; in the next iteration, in
\* which 8210 copied it, pressed_key is none again and key 1 is still held.
C21_Witness ==
    /\ action = "None" /\ opcode = Op(8, 2, 1, 0)
    /\ chip8.registers[1] = 1 /\ chip8.registers[2] = 1
    /\ prev.registers[2] = 0
    /\ keyboard_state.pressed_key = << >>
    /\ keyboard_state.keys_pressed[1]

====
